---- MODULE Spec2Model ----
(***************************************************************************)
(* Model of bsdiff4/format.py: the BSDIFF4 / BSDF2 patch container codec.  *)
(* Byte strings are sequences of naturals in 0..255.  A stream is a byte   *)
(* string together with a read position.  Python exceptions are modelled   *)
(* by the "exc" field of an outcome record ("none" when the call returns). *)
(***************************************************************************)
EXTENDS Integers, Sequences, FiniteSets, TLC

\* ------------------------------------------------------------------------
\* Bounds of the model
\* ------------------------------------------------------------------------
MaxLen == 2        \* longest source / target buffer handed to diff()
MaxCalls == 2      \* read_patch calls for which object identities are kept

\* ------------------------------------------------------------------------
\* Python helpers
\* ------------------------------------------------------------------------
Min(a, b) == IF a < b THEN a ELSE b

Max(a, b) == IF a < b THEN b ELSE a

\* s[a:b] for 0 <= a, 0 <= b
Slice(s, a, b) == SubSeq(s, a + 1, Min(b, Len(s)))

\* fi.read(n) at position pos: at most n bytes, everything left when n < 0
StreamRead(fi, pos, n) ==
    IF n < 0 THEN SubSeq(fi, pos + 1, Len(fi))
    ELSE SubSeq(fi, pos + 1, Min(pos + n, Len(fi)))

\* position of the stream after fi.read(n) at position pos
StreamTell(fi, pos, n) ==
    IF n < 0 THEN Max(pos, Len(fi)) ELSE Max(pos, Min(pos + n, Len(fi)))

BSDIFF_MAGIC == <<66, 83, 68, 73, 70, 70, 52, 48>>

BSDF2_MAGIC == <<66, 83, 68, 70, 50>>

\* CompressionType enumeration values
NoCompression == 0

BZ2 == 1

Brotli == 2

CompressionTypeValues == {NoCompression, BZ2, Brotli}

\* ------------------------------------------------------------------------
\* bsdiff4.core integer codec: 8 bytes, little endian magnitude, the sign
\* in the top bit of the last byte.
\* ------------------------------------------------------------------------
Abs(x) == IF x < 0 THEN 0 - x ELSE x

RECURSIVE MagnitudeBytes(_, _)
MagnitudeBytes(y, n) ==
    IF n = 0 THEN <<>> ELSE <<y % 256>> \o MagnitudeBytes(y \div 256, n - 1)

encode_int64(x) ==
    LET bs == MagnitudeBytes(Abs(x), 8)
    IN  IF x < 0 THEN [bs EXCEPT ![8] = bs[8] + 128] ELSE bs

\* value of bytes i..8 of bs, the sign bit of the last byte masked off
RECURSIVE Magnitude(_, _)
Magnitude(bs, i) ==
    IF i = 8 THEN bs[8] % 128 ELSE bs[i] + 256 * Magnitude(bs, i + 1)

\* decode_int64 accepts exactly 8 bytes ("8 bytes expected" otherwise)
decode_int64_ok(bs) == Len(bs) = 8

decode_int64(bs) ==
    LET m == Magnitude(bs, 1)
    IN  IF bs[8] >= 128 THEN 0 - m ELSE m

\* ------------------------------------------------------------------------
\* Compression libraries.  Each compressed stream is self-delimiting: a
\* codec header, the stored payload with its length, and for brotli the
\* final empty meta-block byte.  Decompression rejects anything that is not
\* exactly one complete stream (empty input, truncation, trailing bytes).
\* ------------------------------------------------------------------------
bz2_compress(data) == <<66, 90, 104, Len(data)>> \o data

brotli_compress(data) == <<Len(data)>> \o data \o <<3>>

brotli_decompress_ok(data) ==
    /\ Len(data) >= 2
    /\ data[1] = Len(data) - 2
    /\ data[Len(data)] = 3

brotli_decompress(data) == SubSeq(data, 2, Len(data) - 1)

\* ------------------------------------------------------------------------
\* bsdiff4.core diff / patch engine (interface of section 6 of the
\* specification): control tuples are (copyLen, extraLen, seek).
\* ------------------------------------------------------------------------
RECURSIVE CommonPrefix(_, _, _)
CommonPrefix(a, b, i) ==
    IF i < Len(a) /\ i < Len(b) /\ a[i + 1] = b[i + 1]
    THEN CommonPrefix(a, b, i + 1) ELSE i

\* core.diff(src, dst) -> (tcontrol, bdiff, bextra)
core_diff(src, dst) ==
    LET p == CommonPrefix(src, dst, 0)
    IN  << <<  <<p, Len(dst) - p, 0>>  >>,
           [i \in 1..p |-> (dst[i] - src[i] + 256) % 256],
           SubSeq(dst, p + 1, Len(dst)) >>

\* bytes of src at oldpos.. added to x bytes of bdiff at diffptr..
AddSource(src, oldpos, bdiff, diffptr, x) ==
    [j \in 1..x |->
        IF oldpos + j >= 1 /\ oldpos + j <= Len(src)
        THEN (bdiff[diffptr + j] + src[oldpos + j]) % 256
        ELSE bdiff[diffptr + j]]

RECURSIVE ApplyControl(_, _, _, _, _, _, _, _, _, _)
ApplyControl(src, len_dst, tcontrol, bdiff, bextra, k, new, oldpos, diffptr, extraptr) ==
    IF k > Len(tcontrol)
    THEN IF Len(new) = len_dst /\ diffptr = Len(bdiff) /\ extraptr = Len(bextra)
         THEN [exc |-> "none", val |-> new]
         ELSE [exc |-> "ValueError: corrupt patch", val |-> <<>>]
    ELSE LET x == tcontrol[k][1]
             y == tcontrol[k][2]
             z == tcontrol[k][3]
         IN  IF \/ x < 0 \/ y < 0
                \/ Len(new) + x + y > len_dst
                \/ diffptr + x > Len(bdiff)
                \/ extraptr + y > Len(bextra)
             THEN [exc |-> "ValueError: corrupt patch", val |-> <<>>]
             ELSE ApplyControl(src, len_dst, tcontrol, bdiff, bextra, k + 1,
                      new \o AddSource(src, oldpos, bdiff, diffptr, x)
                          \o SubSeq(bextra, extraptr + 1, extraptr + y),
                      oldpos + x + z, diffptr + x, extraptr + y)

\* core.patch(src, len_dst, tcontrol, bdiff, bextra) -> dst
core_patch(src, len_dst, tcontrol, bdiff, bextra) ==
    ApplyControl(src, len_dst, tcontrol, bdiff, bextra, 1, <<>>, 0, 0, 0)

\* ------------------------------------------------------------------------
\* write_patch
\* ------------------------------------------------------------------------
\* for c in tcontrol: for x in c: faux.write(core.encode_int64(x))
RECURSIVE FlattenControl(_)
FlattenControl(tcontrol) ==
    IF tcontrol = <<>> THEN <<>>
    ELSE LET c == Head(tcontrol)
         IN  encode_int64(c[1]) \o encode_int64(c[2]) \o encode_int64(c[3])
                 \o FlattenControl(Tail(tcontrol))

\* variant: the target length written first
LengthFieldsTargetFirst(bcontrol, bdiff, len_dst) ==
    encode_int64(len_dst) \o encode_int64(Len(bcontrol)) \o encode_int64(Len(bdiff))

\* the three length fields written after the magic
LengthFields(bcontrol, bdiff, len_dst) ==
    encode_int64(Len(bcontrol)) \o encode_int64(Len(bdiff)) \o encode_int64(len_dst)

\* contents of stream fo after write_patch(fo, len_dst, tcontrol, bdiff, bextra)
write_patch(fo, len_dst, tcontrol, bdiff, bextra) ==
    LET faux == FlattenControl(tcontrol)
        bcontrol == bz2_compress(faux)
        bdiffc == bz2_compress(bdiff)
        bextrac == bz2_compress(bextra)
    IN  fo \o BSDIFF_MAGIC \o LengthFields(bcontrol, bdiffc, len_dst)
           \o bcontrol \o bdiffc \o bextrac

\* ------------------------------------------------------------------------
\* create_bsdf2_decompressor and read_patch
\* ------------------------------------------------------------------------
\* Python objects that read_patch binds as decompressors.  "kind" is the
\* type of the object, "obj" its identity: the bz2.BZ2Decompressor class and
\* the brotli module are single objects of the interpreter, a lambda
\* expression creates a new function object each time it is evaluated.
BZ2DecompressorClass == [kind |-> "class", obj |-> <<"bz2.BZ2Decompressor", 0, 0>>]

BrotliModule == [kind |-> "module", obj |-> <<"brotli", 0, 0>>]

LambdaObject(call, channel) == [kind |-> "function", obj |-> <<"lambda", call, channel>>]

\* create_bsdf2_decompressor(type) evaluated for channel "channel" of read_patch
\* call number "call"
create_bsdf2_decompressor(type, call, channel) ==
    IF type = NoCompression THEN LambdaObject(call, channel)
    ELSE IF type = BZ2 THEN BZ2DecompressorClass
    ELSE IF type = Brotli THEN BrotliModule
    ELSE [kind |-> "raise ValueError: Unknown compression type", obj |-> <<"", 0, 0>>]

\* CompressionType(magic[off]): IndexError when the header is too short,
\* ValueError when the byte is not a member of the enumeration
SelectorError(magic, off) ==
    IF Len(magic) <= off THEN "IndexError"
    ELSE IF magic[off + 1] \notin CompressionTypeValues
         THEN "ValueError: not a valid CompressionType"
         ELSE "none"

\* variant: a selector byte that names no codec falls back to the identity
ChannelDecompressorFallback(magic, off, call, channel) ==
    IF Len(magic) <= off THEN [exc |-> "IndexError", d |-> BrotliModule]
    ELSE [exc |-> "none",
          d |-> IF magic[off + 1] = BZ2 THEN BZ2DecompressorClass
                ELSE IF magic[off + 1] = Brotli THEN BrotliModule
                ELSE LambdaObject(call, channel)]

\* create_bsdf2_decompressor(CompressionType(magic[off])) for one channel
ChannelDecompressor(magic, off, call, channel) ==
    IF SelectorError(magic, off) # "none"
    THEN [exc |-> SelectorError(magic, off), d |-> BrotliModule]
    ELSE LET d == create_bsdf2_decompressor(magic[off + 1], call, channel)
         IN  IF d.kind \notin {"function", "class", "module"}
             THEN [exc |-> "ValueError: Unknown compression type", d |-> d]
             ELSE [exc |-> "none", d |-> d]

\* magic dispatch: the three decompressors, or the exception raised
Dispatch(magic, call) ==
    IF Slice(magic, 0, 4) = Slice(BSDF2_MAGIC, 0, 4)
    THEN LET c == ChannelDecompressor(magic, 5, call, 1)
             d == ChannelDecompressor(magic, 6, call, 2)
             e == ChannelDecompressor(magic, 7, call, 3)
         IN  IF c.exc # "none" THEN [exc |-> c.exc, decomp |-> <<>>]
             ELSE IF d.exc # "none" THEN [exc |-> d.exc, decomp |-> <<>>]
             ELSE IF e.exc # "none" THEN [exc |-> e.exc, decomp |-> <<>>]
             ELSE [exc |-> "none", decomp |-> <<c.d, d.d, e.d>>]
    ELSE IF Slice(magic, 0, 7) = Slice(BSDIFF_MAGIC, 0, 7)
    THEN [exc |-> "none",
          decomp |-> <<BZ2DecompressorClass, BZ2DecompressorClass, BZ2DecompressorClass>>]
    ELSE [exc |-> "ValueError: Not a BSDIFF4 patch", decomp |-> <<>>]

\* d.decompress(fi.read(n)) with the stream at pos: the attribute lookup
\* comes first, then the read, then the call
DecompressRead(d, fi, pos, n) ==
    IF d.kind = "function"
    THEN [exc |-> "AttributeError", data |-> <<>>, pos |-> pos]
    ELSE LET raw == StreamRead(fi, pos, n)
             p == StreamTell(fi, pos, n)
         IN  IF d.kind = "class"
             THEN [exc |-> "TypeError", data |-> <<>>, pos |-> p]
             ELSE IF brotli_decompress_ok(raw)
             THEN [exc |-> "none", data |-> brotli_decompress(raw), pos |-> p]
             ELSE [exc |-> "brotli.error", data |-> <<>>, pos |-> p]

\* variant: only the offsets of whole 24-byte groups
ControlOffsetsWhole(n) == {i \in 0..(n - 1) : i % 24 = 0 /\ i + 24 <= n}

\* range(0, n, 24)
ControlOffsets(n) == {i \in 0..(n - 1) : i % 24 = 0}

\* the three slices of the group at offset i all decode
GroupOk(bcontrol, i) ==
    /\ decode_int64_ok(Slice(bcontrol, i, i + 8))
    /\ decode_int64_ok(Slice(bcontrol, i + 8, i + 16))
    /\ decode_int64_ok(Slice(bcontrol, i + 16, i + 24))

ControlTuple(bcontrol, i) ==
    << decode_int64(Slice(bcontrol, i, i + 8)),
       decode_int64(Slice(bcontrol, i + 8, i + 16)),
       decode_int64(Slice(bcontrol, i + 16, i + 24)) >>

\* the list comprehension building tcontrol
ParseControl(bcontrol) ==
    LET offs == ControlOffsets(Len(bcontrol))
    IN  IF \A i \in offs : GroupOk(bcontrol, i)
        THEN [exc |-> "none",
              tcontrol |-> [k \in 1..Cardinality(offs) |-> ControlTuple(bcontrol, 24 * (k - 1))]]
        ELSE [exc |-> "ValueError: 8 bytes expected", tcontrol |-> <<>>]

\* variant: the target length reported before the two block lengths
HeaderOnlyReturnTargetFirst(len_control, len_diff, len_dst, tcontrol) ==
    <<len_dst, len_control, len_diff, tcontrol>>

\* the tuple returned when header_only is set
HeaderOnlyReturn(len_control, len_diff, len_dst, tcontrol) ==
    <<len_control, len_diff, len_dst, tcontrol>>

\* the tuple returned by a full read
FullReturn(len_dst, tcontrol, bdiff, bextra) == <<len_dst, tcontrol, bdiff, bextra>>

Raise(e, pos, decomp) == [exc |-> e, val |-> <<>>, pos |-> pos, decomp |-> decomp]

Return(v, pos, decomp) == [exc |-> "none", val |-> v, pos |-> pos, decomp |-> decomp]

\* outcome of read_patch(fi, header_only) on a stream positioned at 0:
\* the exception or the returned tuple, the final stream position and the
\* decompressor objects bound by the dispatch
read_patch(fi, header_only, call) ==
    LET magic == StreamRead(fi, 0, 8)
        p0 == StreamTell(fi, 0, 8)
        dis == Dispatch(magic, call)
        dc == dis.decomp
        f1 == StreamRead(fi, p0, 8)
        p1 == StreamTell(fi, p0, 8)
        f2 == StreamRead(fi, p1, 8)
        p2 == StreamTell(fi, p1, 8)
        f3 == StreamRead(fi, p2, 8)
        p3 == StreamTell(fi, p2, 8)
        len_control == decode_int64(f1)
        len_diff == decode_int64(f2)
        len_dst == decode_int64(f3)
        c == DecompressRead(dc[1], fi, p3, len_control)
        t == ParseControl(c.data)
        d == DecompressRead(dc[2], fi, c.pos, len_diff)
        e == DecompressRead(dc[3], fi, d.pos, -1)
    IN  IF dis.exc # "none" THEN Raise(dis.exc, p0, <<>>)
        ELSE IF ~decode_int64_ok(f1) THEN Raise("ValueError: 8 bytes expected", p1, dc)
        ELSE IF ~decode_int64_ok(f2) THEN Raise("ValueError: 8 bytes expected", p2, dc)
        ELSE IF ~decode_int64_ok(f3) THEN Raise("ValueError: 8 bytes expected", p3, dc)
        ELSE IF c.exc # "none" THEN Raise(c.exc, c.pos, dc)
        ELSE IF t.exc # "none" THEN Raise(t.exc, c.pos, dc)
        ELSE IF header_only
             THEN Return(HeaderOnlyReturn(len_control, len_diff, len_dst, t.tcontrol), c.pos, dc)
        ELSE IF d.exc # "none" THEN Raise(d.exc, d.pos, dc)
        ELSE IF e.exc # "none" THEN Raise(e.exc, e.pos, dc)
        ELSE Return(FullReturn(len_dst, t.tcontrol, d.data, e.data), e.pos, dc)

\* ------------------------------------------------------------------------
\* diff and patch
\* ------------------------------------------------------------------------
\* diff(src_bytes, dst_bytes): write_patch into a new BytesIO
diff(src_bytes, dst_bytes) ==
    LET r == core_diff(src_bytes, dst_bytes)
    IN  write_patch(<<>>, Len(dst_bytes), r[1], r[2], r[3])

\* patch(src_bytes, patch_bytes): core.patch on what read_patch returns;
\* an exception of read_patch propagates
patch(src_bytes, patch_bytes, call) ==
    LET r == read_patch(patch_bytes, FALSE, call)
    IN  IF r.exc # "none" THEN [exc |-> r.exc, val |-> <<>>]
        ELSE core_patch(src_bytes, r.val[1], r.val[2], r.val[3], r.val[4])

\* ------------------------------------------------------------------------
\* Inputs
\* ------------------------------------------------------------------------
RECURSIVE BuffersOfLen(_)
BuffersOfLen(n) ==
    IF n = 0 THEN {<<>>}
    ELSE {<<b>> \o r : b \in {97, 98}, r \in BuffersOfLen(n - 1)}

\* target buffers given to diff()
Buffers == UNION {BuffersOfLen(n) : n \in 0..MaxLen}

\* source buffers given to diff()
SourceBuffers == {b \in Buffers : \A i \in 1..Len(b) : b[i] = 97}

Tuple1 == <<1, 1, 0>>

Tuple2 == <<0, 1, -1>>

\* arguments given to write_patch directly
ControlLists == {<<>>, <<Tuple1>>, <<Tuple2, Tuple1>>, <<Tuple1, Tuple2>>}

TargetLengths == {2, 300}

DiffBlocks == {<<>>, <<5>>}

ExtraBlocks == {<<>>, <<7, 200>>}

\* a channel's block as a producer using compression type sel stores it
\* (an unknown type stores the bytes as they are)
StoredBlock(sel, data) ==
    IF sel = BZ2 THEN bz2_compress(data)
    ELSE IF sel = Brotli THEN brotli_compress(data)
    ELSE data

\* container bytes with the given 8-byte header, declared lengths and blocks
Container(header, len_control, len_diff, len_dst, cblock, dblock, eblock) ==
    header \o encode_int64(len_control) \o encode_int64(len_diff) \o encode_int64(len_dst)
           \o cblock \o dblock \o eblock

VersionedHeader(s1, s2, s3) == BSDF2_MAGIC \o <<s1, s2, s3>>

\* decompressed control blocks: whole tuples, and lengths 25, 32 and 8
ControlPayloads ==
    { FlattenControl(<<Tuple1>>),
      FlattenControl(<<Tuple2, Tuple1>>),
      <<>>,
      FlattenControl(<<Tuple1>>) \o <<0>>,
      FlattenControl(<<Tuple1>>) \o encode_int64(1),
      encode_int64(1) }

\* a well framed versioned container with selectors s1, s2, s3
WellFramed(s1, s2, s3, cp) ==
    Container(VersionedHeader(s1, s2, s3),
              Len(StoredBlock(s1, cp)), Len(StoredBlock(s2, <<5>>)), 2,
              StoredBlock(s1, cp), StoredBlock(s2, <<5>>), StoredBlock(s3, <<7>>))

\* versioned containers for every selector triple in 0..3, and for every
\* control payload with brotli on all channels
SelectorContainers ==
    { WellFramed(s1, s2, s3, cp)
      : s1 \in 0..3, s2 \in 0..3, s3 \in 0..3,
        cp \in {FlattenControl(<<Tuple2, Tuple1>>)} }
    \cup { WellFramed(Brotli, Brotli, Brotli, cp) : cp \in ControlPayloads }

\* all-brotli containers whose declared lengths disagree with the blocks,
\* cut after n bytes
FramingContainers ==
    LET cb == brotli_compress(FlattenControl(<<Tuple1>>))
        db == brotli_compress(<<5>>)
        eb == brotli_compress(<<7>>)
    IN  { SubSeq(Container(VersionedHeader(Brotli, Brotli, Brotli),
                           Len(cb) + dc, Len(db) + dd, 2, cb, db, eb), 1, n)
          : dc \in {0, 4, 0 - Len(cb) - 1},
            dd \in {0, 3},
            n \in {20, 40, 32 + Len(cb), 32 + Len(cb) + Len(db),
                   32 + Len(cb) + Len(db) + Len(eb)} }

\* headers that are neither magic, or only a prefix of one
OtherHeaders ==
    { <<66, 83, 68, 73, 70, 70, 52, 49>>,        \* "BSDIFF41"
      <<66, 83, 68, 73, 70, 70, 53, 48>>,        \* "BSDIFF50"
      <<66, 83, 68, 70, 88, 2, 2, 2>>,           \* "BSDFX" 2 2 2
      <<66, 83, 68, 70, 51, 0, 1, 3>>,           \* "BSDF3" 0 1 3
      <<66, 83, 68, 88, 50, 2, 2, 2>>,           \* "BSDX2" 2 2 2
      <<0, 0, 0, 0, 0, 0, 0, 0>>,
      BSDIFF_MAGIC }

MagicContainers ==
    { Container(h, Len(StoredBlock(s, cp)), Len(StoredBlock(s, <<5>>)), 2,
                StoredBlock(s, cp), StoredBlock(s, <<5>>), StoredBlock(s, <<7>>))
      : h \in OtherHeaders, s \in {BZ2, Brotli},
        cp \in {FlattenControl(<<Tuple1>>), encode_int64(1)} }
    \cup { <<>>, <<66, 83, 68, 70>>, <<66, 83, 68, 70, 50, 2>>,
           <<66, 83, 68, 70, 50, 2, 2>>, <<66, 83, 68, 73, 70, 70, 52>>,
           BSDIFF_MAGIC, VersionedHeader(Brotli, Brotli, Brotli),
           VersionedHeader(Brotli, Brotli, Brotli) \o <<1, 0, 0>> }

\* patch bytes that do not come from write_patch
ExternalStreams == SelectorContainers \cup FramingContainers \cup MagicContainers

\* ------------------------------------------------------------------------
\* State
\* ------------------------------------------------------------------------
VARIABLES
    stream,   \* the patch bytes: last output of write_patch / diff, or received
    origin,   \* "none", "write_patch", "diff" or "external"
    wargs,    \* (len_dst, tcontrol, bdiff, bextra) of the write_patch call
    src,      \* source buffer of the last diff ( <<>> otherwise )
    dst,      \* target buffer of the last diff ( <<>> otherwise )
    calls     \* read_patch / patch calls made on stream, with their outcomes

vars == <<stream, origin, wargs, src, dst, calls>>

NoArgs == <<0, <<>>, <<>>, <<>>>>

Init ==
    /\ stream = <<>>
    /\ origin = "none"
    /\ wargs = NoArgs
    /\ src = <<>>
    /\ dst = <<>>
    /\ calls = <<>>

\* write_patch(fo, len_dst, tcontrol, bdiff, bextra) on a new stream fo
WritePatch ==
    \E len_dst \in TargetLengths, tcontrol \in ControlLists,
       bdiff \in DiffBlocks, bextra \in ExtraBlocks :
        /\ stream' = write_patch(<<>>, len_dst, tcontrol, bdiff, bextra)
        /\ origin' = "write_patch"
        /\ wargs' = <<len_dst, tcontrol, bdiff, bextra>>
        /\ src' = <<>>
        /\ dst' = <<>>
        /\ calls' = <<>>

\* diff(src_bytes, dst_bytes)
Diff ==
    \E s \in SourceBuffers, d \in Buffers :
        /\ stream' = diff(s, d)
        /\ origin' = "diff"
        /\ wargs' = <<Len(d)>> \o core_diff(s, d)
        /\ src' = s
        /\ dst' = d
        /\ calls' = <<>>

\* patch bytes produced elsewhere are handed to the reader
Receive ==
    \E fi \in ExternalStreams :
        /\ stream' = fi
        /\ origin' = "external"
        /\ wargs' = NoArgs
        /\ src' = <<>>
        /\ dst' = <<>>
        /\ calls' = <<>>

NoOut == [exc |-> "none", val |-> <<>>]

\* read_patch(BytesIO(stream), header_only)
ReadPatch ==
    \E header_only \in BOOLEAN :
        /\ Len(calls) < MaxCalls
        /\ calls' = Append(calls,
               [op |-> "read_patch", header_only |-> header_only,
                res |-> read_patch(stream, header_only, Len(calls) + 1),
                out |-> NoOut])
        /\ UNCHANGED <<stream, origin, wargs, src, dst>>

\* patch(src, stream)
Patch ==
    /\ Len(calls) < MaxCalls
    /\ calls' = Append(calls,
           [op |-> "patch", header_only |-> FALSE,
            res |-> read_patch(stream, FALSE, Len(calls) + 1),
            out |-> patch(src, stream, Len(calls) + 1)])
    /\ UNCHANGED <<stream, origin, wargs, src, dst>>

Next == WritePatch \/ Diff \/ Receive \/ ReadPatch \/ Patch

Spec == Init /\ [][Next]_vars

\* the most recent call on the current stream
HasCall == calls # <<>>

Last == calls[Len(calls)]

\* ------------------------------------------------------------------------
\* Properties
\* ------------------------------------------------------------------------
Calls == 1..Len(calls)

IsFullRead(k) == calls[k].op = "read_patch" /\ ~calls[k].header_only

IsHeaderRead(k) == calls[k].op = "read_patch" /\ calls[k].header_only

Written == origin \in {"write_patch", "diff"}

\* C1: patch(source, diff(source, target)) returns exactly target.
C1_PatchOfDiffIsTarget ==
    \A k \in Calls :
        (origin = "diff" /\ calls[k].op = "patch")
            => (calls[k].out.exc = "none" /\ calls[k].out.val = dst)

\* C2: a full read_patch of the bytes produced by write_patch takes the
\* legacy branch and returns (len_dst, tcontrol, bdiff, bextra) unchanged.
C2_ReadOfWrittenReturnsArguments ==
    \A k \in Calls :
        (Written /\ IsFullRead(k))
            => /\ calls[k].res.exc = "none"
               /\ calls[k].res.val = wargs

\* C3: with the versioned magic each channel is decoded with the codec its
\* selector byte names, for every selector triple in {0, 1, 2}; a channel
\* with selector 0 comes back as stored.
C3_SelectorsDecodeEachChannel ==
    \A s1 \in CompressionTypeValues, s2 \in CompressionTypeValues,
       s3 \in CompressionTypeValues :
        \A k \in Calls :
            (IsFullRead(k)
                /\ stream = WellFramed(s1, s2, s3, FlattenControl(<<Tuple2, Tuple1>>)))
            => /\ calls[k].res.exc = "none"
               /\ calls[k].res.val = <<2, <<Tuple2, Tuple1>>, <<5>>, <<7>>>>

\* the first 8 bytes are the versioned magic (on bytes 0-4) or the legacy magic
HasKnownMagic(fi) ==
    \/ Slice(fi, 0, 5) = BSDF2_MAGIC
    \/ Slice(fi, 0, 8) = BSDIFF_MAGIC

\* C4: an input whose first 8 bytes are neither magic fails with the
\* not-a-patch error, and nothing past the 8 header bytes is read.
C4_UnknownMagicRejected ==
    \A k \in Calls :
        (Len(stream) >= 8 /\ ~HasKnownMagic(stream))
            => /\ calls[k].res.exc = "ValueError: Not a BSDIFF4 patch"
               /\ calls[k].res.pos <= 8

\* a versioned header one of whose selector bytes is outside {0, 1, 2}
HasUnknownSelector(fi) ==
    /\ Len(fi) >= 8
    /\ Slice(fi, 0, 5) = BSDF2_MAGIC
    /\ \E i \in 6..8 : fi[i] \notin CompressionTypeValues

\* C5: a versioned container with a selector byte outside {0, 1, 2} fails
\* with the unsupported-compression-type error and returns nothing; no
\* decompressor is bound for the unknown selector.
C5_UnknownSelectorRejected ==
    \A k \in Calls :
        HasUnknownSelector(stream)
            => /\ calls[k].res.exc = "ValueError: not a valid CompressionType"
               /\ calls[k].res.val = <<>>
               /\ calls[k].res.decomp = <<>>
               /\ calls[k].out.val = <<>>
               /\ calls[k].op = "patch" => calls[k].out.exc = calls[k].res.exc

C5_Witness ==
    /\ HasCall
    /\ HasUnknownSelector(stream)
    /\ stream[6] = Brotli
    /\ stream[8] \notin CompressionTypeValues
    /\ Last.header_only
    /\ Last.res.exc = "ValueError: not a valid CompressionType"

\* the control block as call k decompressed it (exc # "none" when the call
\* did not get that far)
DecompressedControl(k) ==
    IF calls[k].res.decomp = <<>> \/ Len(stream) < 32
    THEN [exc |-> "not reached", data |-> <<>>, pos |-> 0]
    ELSE DecompressRead(calls[k].res.decomp[1], stream, 32,
                        decode_int64(Slice(stream, 8, 16)))

C7_HeaderOnlyAgreesWithFull ==
    \A j \in Calls, k \in Calls :
        (IsFullRead(j) /\ calls[j].res.exc = "none" /\ IsHeaderRead(k))
            => /\ calls[k].res.exc = "none"
               /\ calls[k].res.val[1] = decode_int64(Slice(stream, 8, 16))
               /\ calls[k].res.val[2] = decode_int64(Slice(stream, 16, 24))
               /\ calls[k].res.val[3] = calls[j].res.val[1]
               /\ calls[k].res.val[4] = calls[j].res.val[2]
               /\ calls[k].res.pos = 32 + calls[k].res.val[1]
               /\ calls[j].res.pos = Len(stream)
               /\ calls[j].res.pos >= 32 + calls[k].res.val[1] + calls[k].res.val[2]

C7_Witness ==
    /\ Len(calls) = 2
    /\ IsFullRead(1)
    /\ calls[1].res.exc = "none"
    /\ Len(calls[1].res.val[2]) = 2
    /\ IsHeaderRead(2)
    /\ calls[2].res.exc = "none"
    /\ calls[2].res.pos < Len(stream)

\* the stream ends before the control block declared in the header, or
\* (for a full read) before the declared diff block
EndsBeforeDeclaredBlock(k) ==
    /\ calls[k].res.decomp # <<>>
    /\ Len(stream) >= 32
    /\ LET lc == decode_int64(Slice(stream, 8, 16))
           ld == decode_int64(Slice(stream, 16, 24))
       IN  /\ lc >= 0
           /\ \/ Len(stream) < 32 + lc
              \/ ~calls[k].header_only /\ ld >= 0 /\ Len(stream) < 32 + lc + ld

\* C8: when the stream ends before the declared control or diff block is
\* available, read_patch fails and returns no partial result.
C8_ShortBlockRejected ==
    \A k \in Calls :
        EndsBeforeDeclaredBlock(k)
            => /\ calls[k].res.exc # "none"
               /\ calls[k].res.val = <<>>

\* the objects bound as decompressors by call k
DecompressorObjects(k) == {calls[k].res.decomp[i].obj : i \in 1..Len(calls[k].res.decomp)}

\* C9: every channel of every read_patch call has a decompressor object of
\* its own: none is shared by two channels of a call or by two calls.
C9_DecompressorsNotShared ==
    /\ \A k \in Calls :
          calls[k].res.decomp # <<>> => Cardinality(DecompressorObjects(k)) = 3
    /\ \A j \in Calls, k \in Calls :
          j # k => DecompressorObjects(j) \cap DecompressorObjects(k) = {}

\* C10: write_patch emits the magic, the 8-byte encodings of the two
\* compressed lengths and of len_dst, then the compressed control (24 bytes
\* per tuple before compression), diff and extra blocks, and nothing else.
C10_WrittenLayout ==
    Written =>
        LET bc == bz2_compress(FlattenControl(wargs[2]))
            bd == bz2_compress(wargs[3])
            be == bz2_compress(wargs[4])
        IN  /\ Slice(stream, 0, 8) = BSDIFF_MAGIC
            /\ decode_int64(Slice(stream, 8, 16)) = Len(bc)
            /\ decode_int64(Slice(stream, 16, 24)) = Len(bd)
            /\ decode_int64(Slice(stream, 24, 32)) = wargs[1]
            /\ Len(FlattenControl(wargs[2])) = 24 * Len(wargs[2])
            /\ Slice(stream, 32, 32 + Len(bc)) = bc
            /\ Slice(stream, 32 + Len(bc), 32 + Len(bc) + Len(bd)) = bd
            /\ Slice(stream, 32 + Len(bc) + Len(bd), Len(stream)) = be
            /\ Len(stream) = 32 + Len(bc) + Len(bd) + Len(be)

C10_Witness ==
    /\ origin = "write_patch"
    /\ wargs = <<300, <<Tuple1, Tuple2>>, <<5>>, <<7, 200>>>>
    /\ Len(stream) = 32 + 52 + 5 + 6

====
